---- MODULE Spec2Model ----
(***************************************************************************)
(* Verification model of godoc-mcp's ephemeral project store               *)
(* (src/project.go) and of the server code that drives it.                 *)
(*                                                                         *)
(* Strings are sequences of one-character strings, so that the prefix,     *)
(* substring and path computations of the code are computed and not        *)
(* assumed.  Time is counted in minutes.                                   *)
(***************************************************************************)
EXTENDS Integers, Sequences, FiniteSets, TLC

(***************************************************************************)
(* Bounds of the model.                                                    *)
(***************************************************************************)
\* number of concurrent request threads
MaxThreads == 2
\* number of scratch directories os.MkdirTemp may hand out in one run
MaxTemp == 2
\* number of GetOrCreateProject calls in one run
MaxCalls == 2
\* how often the shutdown path may call cleanup()
MaxCleanups == 2
\* the longest reference string that is enumerated
MaxLen == 3
\* the age, in minutes, up to which the age of a cached text is counted
MaxAge == 6

(***************************************************************************)
(* Program constants.                                                      *)
(***************************************************************************)
\* 30*time.Minute, the TTL of a scratch pool entry
ProjectTTL == 30
\* the minutes one step of the clock takes: more than the TTL, so that one
\* step takes every entry past its expiry time
TickStep == ProjectTTL + 1
\* a step of time shorter than the time-to-live of a pool entry
ProjectHalfStep == 15

(***************************************************************************)
(* strings: the Go strings and path/filepath functions the code uses       *)
(***************************************************************************)
\* a local variable: e is computed once and F works on its value
Bind(e, F(_)) == CHOOSE y \in { F(x) : x \in {e} } : TRUE

RECURSIVE IndexFrom(_, _, _)
\* first index >= i at which character c occurs in s, 0 if none
IndexFrom(s, c, i) ==
    IF i > Len(s) THEN 0
    ELSE IF s[i] = c THEN i
    ELSE IndexFrom(s, c, i + 1)

RECURSIVE LastIndexTo(_, _, _)
\* last index <= i at which character c occurs in s, 0 if none
LastIndexTo(s, c, i) ==
    IF i < 1 THEN 0
    ELSE IF s[i] = c THEN i
    ELSE LastIndexTo(s, c, i - 1)

\* strings.Contains(s, c) for a one-character c
Contains(s, c) == IndexFrom(s, c, 1) # 0

\* strings.HasPrefix(s, p)
HasPrefix(s, p) == Len(s) >= Len(p) /\ SubSeq(s, 1, Len(p)) = p

\* filepath.IsAbs on unix
IsAbs(s) == HasPrefix(s, <<"/">>)

RECURSIVE Split(_)
\* strings.Split(s, "/")
Split(s) ==
    LET i == IndexFrom(s, "/", 1) IN
    IF i = 0 THEN <<s>>
    ELSE <<SubSeq(s, 1, i - 1)>> \o Bind(SubSeq(s, i + 1, Len(s)), Split)

RECURSIVE JoinElems(_)
\* strings.Join(elems, "/")
JoinElems(elems) ==
    IF elems = <<>> THEN <<>>
    ELSE IF Len(elems) = 1 THEN elems[1]
    ELSE elems[1] \o <<"/">> \o JoinElems(Tail(elems))

RECURSIVE CleanElems(_, _, _)
\* the element stack filepath.Clean builds: "" and "." are dropped, ".."
\* removes the element before it, is dropped at the root and is kept at the
\* start of an unrooted path
CleanElems(elems, out, rooted) ==
    IF elems = <<>> THEN out
    ELSE LET e == Head(elems)
             rest == Tail(elems) IN
         IF e = <<>> \/ e = <<".">> THEN CleanElems(rest, out, rooted)
         ELSE IF e = <<".", ".">>
              THEN IF out # <<>> /\ out[Len(out)] # <<".", ".">>
                   THEN CleanElems(rest, SubSeq(out, 1, Len(out) - 1), rooted)
                   ELSE IF rooted THEN CleanElems(rest, out, rooted)
                   ELSE CleanElems(rest, Append(out, e), rooted)
              ELSE CleanElems(rest, Append(out, e), rooted)

\* filepath.Clean
Clean(s) ==
    Bind(s, LAMBDA path :
        Bind(Split(path), LAMBDA parts :
            Bind(CleanElems(parts, <<>>, IsAbs(path)), LAMBDA elems :
                Bind(JoinElems(elems), LAMBDA body :
                    IF IsAbs(path) THEN <<"/">> \o body
                    ELSE IF body = <<>> THEN <<".">>
                    ELSE body))))

\* filepath.Join(a, b)
Join(a, b) ==
    IF a = <<>> /\ b = <<>> THEN <<>>
    ELSE IF a = <<>> THEN Clean(b)
    ELSE IF b = <<>> THEN Clean(a)
    ELSE Clean(a \o <<"/">> \o b)

\* a filepath.Dir that does not ascend
DirStays(s) == s

\* filepath.Dir
Dir(s) ==
    Bind(s, LAMBDA path : Clean(SubSeq(path, 1, LastIndexTo(path, "/", Len(path)))))

\* filepath.Ext: the suffix of the last element that starts at its last dot
Ext(s) ==
    Bind(s, LAMBDA path :
        Bind(LastIndexTo(path, ".", Len(path)), LAMBDA dot :
            IF dot > LastIndexTo(path, "/", Len(path))
            THEN SubSeq(path, dot, Len(path))
            ELSE <<>>))

RECURSIVE ValidElems(_)
ValidElems(elems) ==
    IF elems = <<>> THEN TRUE
    ELSE /\ Head(elems) # <<>>
         /\ Head(elems) # <<".">>
         /\ Head(elems) # <<".", ".">>
         /\ ValidElems(Tail(elems))

\* io/fs.ValidPath: unrooted, slash-separated, no element that is empty,
\* "." or "..", except that the name "." itself is valid
ValidPath(name) == name = <<".">> \/ Bind(Split(name), ValidElems)

(***************************************************************************)
(* the file system                                                         *)
(***************************************************************************)
\* the name of the module descriptor
GoMod == <<"g", "o", ".", "m", "o", "d">>
GoSum == <<"g", "o", ".", "s", "u", "m">>
DotGo == <<".", "g", "o">>

\* os.TempDir()
TmpDir == <<"/", "t", "m", "p">>
\* the working directory of the server process (os.Getwd)
Cwd == <<"/", "u", "/", "p", "r", "o", "j">>

Digits == <<"1", "2", "3", "4", "5", "6", "7", "8", "9">>
\* the n-th name os.MkdirTemp("", "godoc-mcp-*") hands out; the random suffix
\* is modelled as a serial number, so a name is never handed out twice
TempName(n) ==
    Join(TmpDir, <<"g", "o", "d", "o", "c", "-", "m", "c", "p", "-">> \o <<Digits[n]>>)

Entry(p, d) == [name |-> p, isDir |-> d]

\* the caller's own project, module /u/proj with package pkg, and a
\* directory /u/misc outside every module
UserTree ==
    { Entry(<<"/">>, TRUE),
      Entry(TmpDir, TRUE),
      Entry(<<"/", "u">>, TRUE),
      Entry(<<"/", "u", "/", "m", "i", "s", "c">>, TRUE),
      Entry(Cwd, TRUE),
      Entry(Join(Cwd, GoMod), FALSE),
      Entry(Join(Cwd, <<"p", "k", "g">>), TRUE),
      Entry(Join(Cwd, <<"p", "k", "g", "/", "a", ".", "g", "o">>), FALSE) }

Exists(d, p) == \E e \in d : e.name = p
IsDirAt(d, p) == Entry(p, TRUE) \in d

\* p itself or a path below p
Within(q, p) == q = p \/ HasPrefix(q, IF p = <<"/">> THEN p ELSE p \o <<"/">>)

\* os.RemoveAll(p): p and everything below it is gone; no error if absent
RemoveAll(d, p) == { e \in d : ~Within(e.name, p) }

\* os.Stat(filepath.Join(root, name)), as the walker of an earlier revision
\* stats: no io/fs validity check of the name
OSStat(d, root, name) ==
    Bind(Join(root, name), LAMBDA full :
        [ok |-> Exists(d, full), isDir |-> IsDirAt(d, full)])

\* fs.Stat(os.DirFS(root), name): fails on an empty root and on a name that
\* is not a valid io/fs path, else stats root + "/" + name
DirFSStat(d, root, name) ==
    IF root = <<>> \/ ~ValidPath(name)
    THEN [ok |-> FALSE, isDir |-> FALSE]
    ELSE Bind(Clean(root \o <<"/">> \o name), LAMBDA full :
             [ok |-> Exists(d, full), isDir |-> IsDirAt(d, full)])

RECURSIVE walkUp(_, _)
\* the loop of walkUpDir, src/project.go:146-152
walkUp(d, dir) ==
    IF dir = <<"/">> THEN <<>>
    ELSE IF DirFSStat(d, dir, GoMod).ok THEN dir
    ELSE Bind(Dir(dir), LAMBDA up : walkUp(d, up))

\* walkUpDir: "" stands for NotFound
walkUpDir(d, absPath) ==
    Bind(DirFSStat(d, <<"/">>, absPath), LAMBDA stat :
        IF ~stat.ok THEN <<>>
        ELSE IF ~stat.isDir /\ Ext(absPath) # DotGo THEN <<>>
        ELSE Bind(IF stat.isDir THEN absPath ELSE Dir(absPath), LAMBDA dir : walkUp(d, dir)))

\* isStdLib: no dot in the import path
isStdLib(pkg) == ~Contains(pkg, ".")

(***************************************************************************)
(* package references the requests use                                     *)
(***************************************************************************)
RefIo == <<"i", "o">>
RefRemote == <<"x", ".", "y", "/", "z">>
RefAbs == <<"/", "u", "/", "p", "r", "o", "j", "/", "p", "k", "g">>
RefGoFile == <<"/", "u", "/", "p", "r", "o", "j", "/", "p", "k", "g", "/", "a", ".", "g", "o">>
RefRel == <<".", "/", "p", "k", "g">>
Refs == {RefIo, RefRemote, RefAbs, RefGoFile, RefRel}

Threads == 1..MaxThreads

(***************************************************************************)
(* state                                                                   *)
(***************************************************************************)
VARIABLES
    disk,       \* the file system: a set of Entry
    cache,      \* pm.cache: reference -> item, NoItem where there is none
    tempDirs,   \* pm.tempDirs
    mu,         \* pm.mu: "free" or its holder
    sweeper,    \* the goroutine of pm.cache.Start(): "running" or "stopped"
    evicting,   \* the OnEviction goroutines that were started and have not
                \* returned
    cb,         \* the OnEviction goroutine that holds pm.mu, and how far it is
    nextTemp,   \* serial number of the next scratch directory
    active,     \* the request threads that issue calls
    refs,       \* the references the requests ask for
    pc,         \* per thread: where it is in GetOrCreateProject
    pkgPath,    \* per thread: the argument of GetOrCreateProject
    localPath,  \* per thread: pkgPath inside createTempProject
    tempDir,    \* per thread: projectDir / tempDir of the call
    trace,      \* per thread: directories made and subprocesses run by the call
    calls,      \* how many GetOrCreateProject calls were made
    cpc,        \* where the shutdown path is in cleanup()
    cleanups,   \* how many times cleanup() has been called
    raced,      \* history: cleanup() ran while a call had a scratch directory
                \* that it had not put into the pool yet
    mpc,        \* where main is: "off" when the store is used without a server
    docSweeper, \* the goroutine of srv.cache.Start(): "running" or "stopped"
    docCache,   \* srv.cache: the documentation cache, a function from the
                \* keys it holds to their items
    hpc,        \* per thread: where it is in handleToolCall
    req,        \* per thread: the request it handles
    workingDir, \* per thread: workingDir of handleToolCall
    docLast,    \* history: the runGoDoc call that returned last
    resp,       \* history: the response handleToolCall returned last, none
                \* while a request is being handled
    last,       \* history: the call of the sequential client that returned
                \* last, and what it returned
    committed,  \* history: per reference, the first directory returned for it
                \* since its pool entry was last evicted
    undisturbed, \* history: no eviction and no cleanup step since that return
    lastErr,    \* history: the error that call returned, and the output of the
                \* subprocess that failed
    fnRef,      \* the reference a function of the store is applied to
    fnOut,      \* what the functions returned for it
    paging      \* the text and the page parameters the pagination of
                \* handleToolCall is applied to, and what it gave

cfgVars == <<active, refs>>
pmVars == <<cache, tempDirs, mu, sweeper, evicting, nextTemp>>
cbVars == <<cb>>
thVars == <<pc, pkgPath, localPath, tempDir, trace>>
shVars == <<cpc, cleanups, raced>>
srvVars == <<mpc, docSweeper, docCache>>
reqVars == <<hpc, req, workingDir, docLast, resp>>
histVars == <<last, committed, undisturbed>>
fnVars == <<fnRef, fnOut, paging>>
vars == <<disk, pmVars, cbVars, cfgVars, thVars, calls, shVars, srvVars, reqVars,
          histVars, lastErr, fnVars>>

\* an item of the pool; expiresIn is expiresAt - time.Now(), the minutes left
\* until the expiry time (0: the expiry time is now, negative: it has passed)
NoItem == [value |-> <<>>, expiresIn |-> 0]

\* Item.isExpiredUnsafe: expiresAt.Before(time.Now())
IsExpired(item) == item # NoItem /\ item.expiresIn < 0

\* Cache.Get: nil for a missing and for an expired item; a hit touches the
\* item, which moves its expiry to now + ttl
CacheGet(c, key) ==
    IF c[key] = NoItem \/ IsExpired(c[key])
    THEN [hit |-> FALSE, value |-> <<>>, cache |-> c]
    ELSE [hit |-> TRUE, value |-> c[key].value,
          cache |-> [c EXCEPT ![key].expiresIn = ProjectTTL]]

\* a GetOrCreateProject that returns the directory without recording it
CacheSetDropped(c, key, value) == c

\* Cache.Set: overwrites the value of an item that is in the map (expired or
\* not) in place, without an eviction event, else inserts a new item
CacheSet(c, key, value) ==
    [c EXCEPT ![key] = [value |-> value, expiresIn |-> ProjectTTL]]

\* the items Cache.DeleteExpired evicts
ExpiredKeys(c) == { k \in DOMAIN c : IsExpired(c[k]) }
\* the items Cache.DeleteAll evicts
AllKeys(c) == { k \in DOMAIN c : c[k] # NoItem }

\* an eviction that starts the callbacks and leaves the items in the map
EvictKept(c, keys) == c

\* evict: the items leave the map and one OnEviction goroutine is started
\* for each of them
EvictFrom(c, keys) == [k \in DOMAIN c |-> IF k \in keys THEN NoItem ELSE c[k]]
Evicted(c, keys) == { [key |-> k, value |-> c[k].value] : k \in keys }

\* slices.DeleteFunc(pm.tempDirs, func(s) bool { return s == v })
RECURSIVE DeleteFunc(_, _)
DeleteFunc(list, v) ==
    IF list = <<>> THEN <<>>
    ELSE IF Head(list) = v THEN DeleteFunc(Tail(list), v)
    ELSE <<Head(list)>> \o DeleteFunc(Tail(list), v)

\* the switch of createTempProject, src/project.go:70-88: the pkgPath the
\* rest of the function uses and the module root it returns ("" if none);
\* wdOK is whether os.Getwd succeeds inside filepath.Abs
Resolve(d, ref, wdOK) ==
    IF isStdLib(ref) THEN [pkgPath |-> ref, root |-> <<>>]
    ELSE IF HasPrefix(ref, <<".">>) \/ HasPrefix(ref, <<"/">>)
         THEN IF ~IsAbs(ref) /\ ~wdOK
              THEN [pkgPath |-> ref, root |-> <<>>]
              ELSE Bind(IF IsAbs(ref) THEN Clean(ref) ELSE Join(Cwd, ref), LAMBDA absPath :
                       [pkgPath |-> absPath, root |-> walkUpDir(d, absPath)])
         ELSE IF IsAbs(ref) THEN [pkgPath |-> ref, root |-> walkUpDir(d, ref)]
         ELSE [pkgPath |-> ref, root |-> <<>>]

\* a createTempProject that fetches whatever the reference is
FetchAlways(p) == FALSE

\* a createTempProject that never fetches
FetchNever(p) == TRUE

\* src/project.go:107-112: no package-fetch for these
NoFetch(p) == p = <<>> \/ IsAbs(p) \/ isStdLib(p)

Op(name, dir, arg) == [op |-> name, dir |-> dir, arg |-> arg]

(***************************************************************************)
(* the documentation cache of runGoDoc                                     *)
(***************************************************************************)
Bar == <<"|">>

RECURSIVE StringsJoin(_, _)
\* strings.Join(elems, sep)
StringsJoin(elems, sep) ==
    IF elems = <<>> THEN <<>>
    ELSE IF Len(elems) = 1 THEN elems[1]
    ELSE elems[1] \o sep \o StringsJoin(Tail(elems), sep)

\* src/unnamed/part_003:155: cacheKey := workingDir + "|" + strings.Join(args, "|")
cacheKey(dir, args) == dir \o Bar \o StringsJoin(args, Bar)

\* a symbol to look up
SymReader == <<"R">>

\* the time-to-live of a documentation cache item, in minutes
DocTTL == 5
DocTickStep == DocTTL + 1
\* a step of time shorter than the time-to-live
DocHalfStep == 3

\* Cache.Get on the documentation cache: nil for a missing and for an
\* expired item; a hit touches the item
DocAlwaysMiss(c, key) == [hit |-> FALSE, value |-> <<>>, cache |-> c]

DocGet(c, key) ==
    IF key \notin DOMAIN c \/ IsExpired(c[key])
    THEN [hit |-> FALSE, value |-> <<>>, cache |-> c]
    ELSE [hit |-> TRUE, value |-> c[key].value,
          cache |-> [c EXCEPT ![key].expiresIn = DocTTL]]

\* a Set that stores nothing
DocSetDropped(c, key, content) == c

\* Cache.Set(cacheKey, cachedDoc{...}, 5*time.Minute); age is the time since
\* cachedDoc.timestamp, in minutes, counted up to MaxAge
DocSet(c, key, content) ==
    [k \in DOMAIN c \cup {key} |->
        IF k = key THEN [value |-> content, expiresIn |-> DocTTL, age |-> 0]
        ELSE c[k]]

\* the phrases runGoDoc looks for in the combined output
NoSuchPackage == "no such package"
NotInStd == "is not in std"
NoSuchSymbol == "no such symbol"
BuildConstraints == "build constraints exclude all Go files"

\* strings.Contains(errStr, phrase), for a combined output that is given as
\* the sequence of the phrases that occur in it
Says(out, phrase) == \E i \in 1..Len(out) : out[i] = phrase

\* what `go doc args...` prints when it succeeds in dir: the text of that
\* lookup, in which the phrases of out occur
GoDocOutput(dir, args, out) == [dir |-> dir, args |-> args, out |-> out]

\* how the documentation command ends: its exit status ("never" for a
\* process that does not exit) and its combined output
Outcome(exit, out) == [exit |-> exit, out |-> out]

\* no runGoDoc call has returned
NoDoc == [dir |-> <<>>, args |-> <<>>, started |-> FALSE, text |-> <<>>, err |-> "none"]

\* no request
NoRequest == [path |-> <<>>, target |-> <<>>, dir |-> <<>>, ticket |-> 0]

\* what handleToolCall returns: kind is "result" for a text result,
\* "toolerror" for an error result and "error" for a Go error; path and dir
\* are the path and working_dir of the request
Response(kind, msg, path, dir) == [kind |-> kind, msg |-> msg, path |-> path, dir |-> dir]
NoResponse == Response("none", <<>>, <<>>, <<>>)

(***************************************************************************)
(* NewProjectManager: an empty pool, an empty list, the sweeper started    *)
(***************************************************************************)
NoLast == [ref |-> <<>>, dir |-> <<>>, err |-> "none", trace |-> <<>>]

\* the combined outputs a failing subprocess may print
Outputs == {<<"e", "1">>, <<"e", "2">>}

\* an error text that leaves the output out
ErrorfBare(what, pkg, out) == <<<<what>>, pkg>>

\* fmt.Errorf("failed to ...: %v\noutput: %s", err, out), src/project.go:104
\* and 118: the parts of the error text
Errorf(what, pkg, out) == <<<<what>>, pkg, <<"output: ">>, out>>

NoErr == [printed |-> <<>>, text |-> <<>>]

\* no OnEviction goroutine holds pm.mu
NoCallback == [key |-> <<>>, value |-> <<>>, removed |-> FALSE]

InitPool ==
    /\ cache = [k \in Refs |-> NoItem]
    /\ tempDirs = <<>>
    /\ mu = "free"
    /\ sweeper = "running"
    /\ evicting = {}
    /\ cb = NoCallback
    /\ nextTemp = 1
    /\ pc = [t \in Threads |-> "idle"]
    /\ pkgPath = [t \in Threads |-> <<>>]
    /\ localPath = [t \in Threads |-> <<>>]
    /\ tempDir = [t \in Threads |-> <<>>]
    /\ trace = [t \in Threads |-> <<>>]
    /\ calls = 0
    /\ cpc = "idle"
    /\ cleanups = 0
    /\ raced = FALSE
    /\ last = NoLast
    /\ committed = [k \in Refs |-> <<>>]
    /\ undisturbed = TRUE
    /\ lastErr = NoErr

\* the store on the caller's file system
InitStore == disk = UserTree /\ InitPool

\* src/unnamed/part_003:385-391: the documentation cache is empty and its
\* sweeper started
InitDocCache ==
    /\ docSweeper = "running"
    /\ docCache = <<>>

\* no function is applied on its own
NoOut == [class |-> "none", fetch |-> FALSE, walked |-> FALSE, root |-> <<>>,
          validated |-> FALSE, dir |-> <<>>, resolved |-> [path |-> <<>>, err |-> ""]]
\* the pagination is applied to nothing
NoPage == [kind |-> "none", page |-> 0, totalPages |-> 0, start |-> 0, end |-> 0]
NoPaging == [lines |-> 0, page |-> 0, pageSize |-> 0, out |-> NoPage]
InitNoFn == fnRef = <<>> /\ fnOut = NoOut /\ paging = NoPaging

\* no request is being handled
InitHandler ==
    /\ hpc = [t \in Threads |-> "idle"]
    /\ req = [t \in Threads |-> NoRequest]
    /\ workingDir = [t \in Threads |-> <<>>]
    /\ docLast = NoDoc
    /\ resp = NoResponse

\* the store on its own, with no server around it
InitNoServer == InitDocCache /\ InitHandler /\ InitNoFn /\ mpc = "off"

\* concurrent requests
Init == InitStore /\ InitNoServer /\ active = Threads /\ refs = {RefRemote, RefGoFile}

\* one client that issues its calls one after the other
InitSeq == InitStore /\ InitNoServer /\ active = {1} /\ refs = Refs

\* src/unnamed/part_003:379-424: main has built the server and serves
InitServer ==
    /\ InitStore
    /\ InitDocCache
    /\ InitHandler
    /\ InitNoFn
    /\ mpc = "serving"
    /\ active = {1}
    /\ refs = {RefRemote, RefIo}

\* there is one client: the history of its calls is kept
Sequential == active = {1}

(***************************************************************************)
(* GetOrCreateProject                                                      *)
(***************************************************************************)
\* the call of thread t for reference key returns (dir, err) after the
\* steps tr; its locals are gone
Return(t, key, dir, err, tr) ==
    /\ pc' = [pc EXCEPT ![t] = "idle"]
    /\ pkgPath' = [pkgPath EXCEPT ![t] = <<>>]
    /\ localPath' = [localPath EXCEPT ![t] = <<>>]
    /\ tempDir' = [tempDir EXCEPT ![t] = <<>>]
    /\ trace' = [trace EXCEPT ![t] = <<>>]
    /\ last' = IF Sequential
               THEN [ref |-> key, dir |-> dir, err |-> err, trace |-> tr]
               ELSE last
    /\ undisturbed' = (Sequential \/ undisturbed)
    /\ committed' = IF err = "" /\ committed[key] = <<>>
                    THEN [committed EXCEPT ![key] = dir]
                    ELSE committed

\* the call of the sequential client fails with the error text, after a
\* subprocess that printed out
Failed(text, out) ==
    lastErr' = IF Sequential THEN [printed |-> out, text |-> text] ELSE lastErr

\* src/project.go:45-53: the pool lookup
Call(t, ref) ==
    /\ t \in active
    /\ ref \in refs
    /\ pc[t] = "idle"
    /\ calls < MaxCalls
    /\ calls' = calls + 1
    /\ \E g \in {CacheGet(cache, ref)} :
         /\ cache' = g.cache
         /\ IF g.hit
            THEN Return(t, ref, g.value, "", <<>>)
            ELSE /\ pc' = [pc EXCEPT ![t] = "create"]
                 /\ pkgPath' = [pkgPath EXCEPT ![t] = ref]
                 /\ UNCHANGED <<localPath, tempDir, trace, histVars>>
    /\ UNCHANGED <<fnVars, lastErr, reqVars, srvVars, cb, disk, tempDirs, mu, sweeper, evicting, nextTemp, cfgVars, shVars>>

\* src/project.go:69-88: classify the reference and try the module root
Classify(t) ==
    /\ pc[t] = "create"
    /\ \E wdOK \in BOOLEAN : \E r \in {Resolve(disk, pkgPath[t], wdOK)} :
         /\ localPath' = [localPath EXCEPT ![t] = r.pkgPath]
         /\ IF r.root # <<>>
            THEN /\ tempDir' = [tempDir EXCEPT ![t] = r.root]
                 /\ pc' = [pc EXCEPT ![t] = "set"]
            ELSE /\ tempDir' = tempDir
                 /\ pc' = [pc EXCEPT ![t] = "mkdir"]
    /\ UNCHANGED <<fnVars, lastErr, reqVars, srvVars, cb, disk, pmVars, cfgVars, pkgPath, trace, calls, shVars, histVars>>

\* src/project.go:91-94: os.MkdirTemp, which may fail
MkdirTemp(t) ==
    /\ pc[t] = "mkdir"
    /\ \/ /\ nextTemp <= MaxTemp
          /\ \E dir \in {TempName(nextTemp)} :
                /\ disk' = disk \cup {Entry(dir, TRUE)}
                /\ tempDir' = [tempDir EXCEPT ![t] = dir]
                /\ trace' = [trace EXCEPT ![t] = Append(@, Op("mkdir", dir, <<>>))]
          /\ nextTemp' = nextTemp + 1
          /\ pc' = [pc EXCEPT ![t] = "register"]
          /\ UNCHANGED <<pkgPath, localPath, histVars>>
       \/ /\ Return(t, pkgPath[t], <<>>, "mkdir", trace[t])
          /\ UNCHANGED <<disk, nextTemp>>
    /\ UNCHANGED <<fnVars, lastErr, reqVars, srvVars, cb, cache, tempDirs, mu, sweeper, evicting, cfgVars, calls, shVars>>

\* an unlock that is deferred to the return of createTempProject: the call
\* keeps pm.mu
UnlockDeferred(m) == "call"

\* src/project.go:98: pm.mu.Unlock()
Unlock(m) == "free"

\* src/project.go:96-98: append to the pending-cleanup list under the
\* lock, and release it
Register(t) ==
    /\ pc[t] = "register"
    /\ mu = "free"
    /\ tempDirs' = Append(tempDirs, tempDir[t])
    /\ mu' = Unlock(mu)
    /\ pc' = [pc EXCEPT ![t] = "modinit"]
    /\ UNCHANGED <<fnVars, lastErr, reqVars, srvVars, cb, disk, cache, sweeper, evicting, nextTemp, cfgVars,
                   pkgPath, localPath, tempDir, trace, calls, shVars, histVars>>

\* src/project.go:100-112: go mod init godoc-temp in the scratch directory
ModInit(t) ==
    /\ pc[t] = "modinit"
    /\ \E tr \in {Append(trace[t], Op("init", tempDir[t], <<>>))} :
         \/ /\ disk' = IF IsDirAt(disk, tempDir[t])
                        THEN disk \cup {Entry(Join(tempDir[t], GoMod), FALSE)}
                        ELSE disk
            /\ trace' = [trace EXCEPT ![t] = tr]
            /\ pc' = [pc EXCEPT ![t] = IF NoFetch(localPath[t]) THEN "set" ELSE "fetch"]
            /\ UNCHANGED <<pkgPath, localPath, tempDir, histVars, lastErr>>
         \/ /\ disk' = disk
            /\ Return(t, pkgPath[t], <<>>, "init", tr)
            /\ \E out \in Outputs : Failed(Errorf("failed to initialize go.mod", <<>>, out), out)
    /\ UNCHANGED <<fnVars, reqVars, srvVars, cb, pmVars, cfgVars, calls, shVars>>

\* src/project.go:114-119: go get pkgPath in the scratch directory
Fetch(t) ==
    /\ pc[t] = "fetch"
    /\ \E tr \in {Append(trace[t], Op("get", tempDir[t], localPath[t]))} :
         \/ /\ disk' = IF IsDirAt(disk, tempDir[t])
                        THEN disk \cup {Entry(Join(tempDir[t], GoSum), FALSE)}
                        ELSE disk
            /\ trace' = [trace EXCEPT ![t] = tr]
            /\ pc' = [pc EXCEPT ![t] = "set"]
            /\ UNCHANGED <<pkgPath, localPath, tempDir, histVars, lastErr>>
         \/ /\ disk' = disk
            /\ Return(t, pkgPath[t], <<>>, "get", tr)
            /\ \E out \in Outputs : Failed(Errorf("failed to get package", localPath[t], out), out)
    /\ UNCHANGED <<fnVars, reqVars, srvVars, cb, pmVars, cfgVars, calls, shVars>>

\* src/project.go:61-65: record the directory in the pool and return it
SetAndReturn(t) ==
    /\ pc[t] = "set"
    /\ cache' = CacheSet(cache, pkgPath[t], tempDir[t])
    /\ Return(t, pkgPath[t], tempDir[t], "", trace[t])
    /\ UNCHANGED <<fnVars, lastErr, reqVars, srvVars, cb, disk, tempDirs, mu, sweeper, evicting, nextTemp, cfgVars, calls, shVars>>

(***************************************************************************)
(* the TTL sweeper and the eviction callback                               *)
(***************************************************************************)
\* the history of an eviction of the items under keys
Forget(keys) ==
    /\ committed' = [k \in DOMAIN committed |-> IF k \in keys THEN <<>> ELSE committed[k]]
    /\ undisturbed' = FALSE
    /\ last' = last

\* Cache.Start: the timer fires and DeleteExpired evicts every expired item
Sweep ==
    /\ sweeper = "running"
    /\ ExpiredKeys(cache) # {}
    /\ cache' = EvictFrom(cache, ExpiredKeys(cache))
    /\ evicting' = evicting \cup Evicted(cache, ExpiredKeys(cache))
    /\ Forget(ExpiredKeys(cache))
    /\ UNCHANGED <<fnVars, lastErr, reqVars, srvVars, cb, disk, tempDirs, mu, sweeper, nextTemp, cfgVars, thVars, calls, shVars>>

\* a callback that does not wait for pm.mu
LockSkipped(m) == TRUE

\* src/project.go:35: pm.mu.Lock() goes on when nobody holds the lock
LockFree(m) == m = "free"

\* src/project.go:34-35: the OnEviction callback, on its own goroutine,
\* takes pm.mu
OnEviction(e) ==
    /\ e \in evicting
    /\ LockFree(mu)
    /\ mu' = "evict"
    /\ cb' = [key |-> e.key, value |-> e.value, removed |-> FALSE]
    /\ UNCHANGED <<fnVars, lastErr, reqVars, srvVars, disk, cache, tempDirs, sweeper, evicting, nextTemp, cfgVars, thVars,
                   calls, shVars, histVars>>

\* src/project.go:36: os.RemoveAll(i.Value()), with pm.mu held
EvictionRemoveAll ==
    /\ cb # NoCallback
    /\ ~cb.removed
    /\ disk' = RemoveAll(disk, cb.value)
    /\ cb' = [cb EXCEPT !.removed = TRUE]
    /\ UNCHANGED <<fnVars, lastErr, reqVars, srvVars, pmVars, cfgVars, thVars, calls, shVars, histVars>>

\* src/project.go:37-39: slices.DeleteFunc on the pending-cleanup list, then
\* the deferred Unlock; the goroutine is done
EvictionUnlock ==
    /\ cb # NoCallback
    /\ cb.removed
    /\ tempDirs' = DeleteFunc(tempDirs, cb.value)
    /\ evicting' = evicting \ {[key |-> cb.key, value |-> cb.value]}
    /\ mu' = "free"
    /\ cb' = NoCallback
    /\ UNCHANGED <<fnVars, lastErr, reqVars, srvVars, disk, cache, sweeper, nextTemp, cfgVars, thVars, calls, shVars,
                   histVars>>

(***************************************************************************)
(* cleanup                                                                 *)
(***************************************************************************)
\* src/project.go:56-62, 91: some call has created its scratch directory and has
\* not yet put it into the pool
InFlight == \E t \in Threads : pc[t] \in {"register", "modinit", "fetch", "set"} /\ tempDir[t] # <<>>

\* src/project.go:123-129: take the lock and drop the pending-cleanup list
CleanupLock ==
    /\ cpc = "idle"
    /\ cleanups < MaxCleanups
    /\ mu = "free"
    /\ mu' = "cleanup"
    /\ tempDirs' = <<>>
    /\ cpc' = "deleteall"
    /\ cleanups' = cleanups + 1
    /\ raced' = (raced \/ InFlight)
    /\ undisturbed' = FALSE
    /\ UNCHANGED <<fnVars, lastErr, reqVars, srvVars, cb, disk, cache, sweeper, evicting, nextTemp, cfgVars, thVars, calls,
                   last, committed>>

\* src/project.go:130: pm.cache.DeleteAll()
CleanupDeleteAll ==
    /\ cpc = "deleteall"
    /\ cache' = EvictFrom(cache, AllKeys(cache))
    /\ evicting' = evicting \cup Evicted(cache, AllKeys(cache))
    /\ cpc' = "stop"
    /\ raced' = (raced \/ InFlight)
    /\ Forget(DOMAIN cache)
    /\ UNCHANGED <<fnVars, lastErr, reqVars, srvVars, cb, disk, tempDirs, mu, sweeper, nextTemp, cfgVars, thVars, calls, cleanups>>

\* src/project.go:131-132: pm.cache.Stop() hands the stop signal to the
\* sweeper, which must be there to take it; then the deferred Unlock
CleanupStop ==
    /\ cpc = "stop"
    /\ sweeper = "running"
    /\ sweeper' = "stopped"
    /\ mu' = "free"
    /\ cpc' = "idle"
    /\ raced' = (raced \/ InFlight)
    /\ undisturbed' = FALSE
    /\ UNCHANGED <<fnVars, lastErr, reqVars, srvVars, cb, disk, cache, tempDirs, evicting, nextTemp, cfgVars, thVars, calls,
                   cleanups, last, committed>>

(***************************************************************************)
(* time                                                                    *)
(***************************************************************************)
\* step minutes pass: every item is that much nearer to, or further
\* past, its expiry time; how long ago an item expired is not recorded
TickBy(step) ==
    /\ \E k \in DOMAIN cache : cache[k] # NoItem /\ ~IsExpired(cache[k])
    /\ cache' = [k \in DOMAIN cache |->
                    IF cache[k] = NoItem \/ IsExpired(cache[k]) THEN cache[k]
                    ELSE [cache[k] EXCEPT !.expiresIn = @ - step]]
    /\ UNCHANGED <<fnVars, lastErr, reqVars, srvVars, cb, disk, tempDirs, mu, sweeper, evicting, nextTemp, cfgVars, thVars, calls,
                   shVars, histVars>>

\* TickStep minutes pass
Tick == TickBy(TickStep)

Next ==
    \/ \E t \in Threads, ref \in Refs : Call(t, ref)
    \/ \E t \in Threads : Classify(t)
    \/ \E t \in Threads : MkdirTemp(t)
    \/ \E t \in Threads : Register(t)
    \/ \E t \in Threads : ModInit(t)
    \/ \E t \in Threads : Fetch(t)
    \/ \E t \in Threads : SetAndReturn(t)
    \/ Sweep
    \/ \E e \in evicting : OnEviction(e)
    \/ EvictionRemoveAll
    \/ EvictionUnlock
    \/ CleanupLock
    \/ CleanupDeleteAll
    \/ CleanupStop
    \/ Tick

Spec == Init /\ [][Next]_vars
SpecSeq == InitSeq /\ [][Next]_vars

\* the steps of time of the pool: less than the time-to-live, and more
PoolSteps == {ProjectHalfStep, TickStep}

\* one client, one import path
InitOne == InitStore /\ InitNoServer /\ active = {1} /\ refs = {RefRemote}

NextPool ==
    \/ \E t \in Threads, ref \in Refs : Call(t, ref)
    \/ \E t \in Threads : Classify(t)
    \/ \E t \in Threads : MkdirTemp(t)
    \/ \E t \in Threads : Register(t)
    \/ \E t \in Threads : ModInit(t)
    \/ \E t \in Threads : Fetch(t)
    \/ \E t \in Threads : SetAndReturn(t)
    \/ Sweep
    \/ \E e \in evicting : OnEviction(e)
    \/ EvictionRemoveAll
    \/ EvictionUnlock
    \/ CleanupLock
    \/ CleanupDeleteAll
    \/ CleanupStop
    \/ \E step \in PoolSteps : TickBy(step)

\* the store with time that passes in steps shorter than the time-to-live
SpecPool == InitOne /\ [][NextPool]_vars

\* the steps of the program itself: requests, the start of cleanup and the
\* passing of time are up to the environment
Internal ==
    \/ \E t \in Threads : Classify(t) \/ MkdirTemp(t) \/ Register(t) \/ ModInit(t)
                            \/ Fetch(t) \/ SetAndReturn(t)
    \/ Sweep
    \/ \E e \in evicting : OnEviction(e)
    \/ EvictionRemoveAll
    \/ EvictionUnlock
    \/ CleanupDeleteAll
    \/ CleanupStop

\* the Go scheduler runs every goroutine that can run: the program does not
\* stop while a call, the sweeper, an eviction callback or cleanup() has a
\* step to take.  (No step of the program can be taken forever, so this is
\* as strong as fairness for each goroutine.)
Fairness == WF_vars(Internal)
FairSpec == Spec /\ Fairness

(***************************************************************************)
(* main and GodocServer.cleanup                                            *)
(***************************************************************************)
\* the process has not exited: its goroutines run
Alive == mpc # "exited"

\* a Cache.Stop that leaves the sweeper running
StopIgnored(s) == s

\* Cache.Stop: the Start loop takes the stop signal and returns
StopSweeper(s) == "stopped"

\* src/unnamed/part_003:412-426: the transport (sse.Start or ServeStdio)
\* returns; with an error main calls logger.Fatal, else it returns and the
\* deferred srv.cleanup() of line 409 runs
TransportReturns ==
    /\ mpc = "serving"
    /\ \E failed \in BOOLEAN : mpc' = IF failed THEN "fatal" ELSE "cleanup"
    /\ UNCHANGED <<fnVars, lastErr, reqVars, disk, pmVars, cbVars, cfgVars, thVars, calls, shVars, docSweeper,
                   docCache, histVars>>

\* src/unnamed/part_003:371: srv.cleanup() calls s.projectManager.cleanup()
ServerCleanupStore == mpc = "cleanup" /\ cleanups = 0 /\ CleanupLock

\* src/unnamed/part_003:372-373: s.projectManager.cleanup() has returned;
\* s.cache.DeleteAll()
ServerDeleteAll ==
    /\ mpc = "cleanup"
    /\ cleanups > 0
    /\ cpc = "idle"
    /\ docCache' = <<>>
    /\ mpc' = "docstop"
    /\ UNCHANGED <<fnVars, lastErr, reqVars, disk, pmVars, cbVars, cfgVars, thVars, calls, shVars, docSweeper,
                   histVars>>

\* src/unnamed/part_003:374-376: s.cache.Stop(), then srv.cleanup() returns
ServerStop ==
    /\ mpc = "docstop"
    /\ docSweeper = "running"
    /\ docSweeper' = StopSweeper(docSweeper)
    /\ mpc' = "return"
    /\ UNCHANGED <<fnVars, lastErr, reqVars, disk, pmVars, cbVars, cfgVars, thVars, calls, shVars, docCache,
                   histVars>>

\* main returns after the deferred cleanup, or logger.Fatal calls os.Exit(1)
\* (src/unnamed/part_003:418, 425), which runs no deferred function; every
\* goroutine ends with the process
Exit ==
    /\ mpc \in {"fatal", "return"}
    /\ mpc' = "exited"
    /\ UNCHANGED <<fnVars, lastErr, reqVars, disk, pmVars, cbVars, cfgVars, thVars, calls, shVars, docSweeper,
                   docCache, histVars>>

NextServer ==
    \/ mpc = "serving" /\ \E t \in Threads, ref \in Refs : Call(t, ref)
    \/ Alive /\ \E t \in Threads : Classify(t)
    \/ Alive /\ \E t \in Threads : MkdirTemp(t)
    \/ Alive /\ \E t \in Threads : Register(t)
    \/ Alive /\ \E t \in Threads : ModInit(t)
    \/ Alive /\ \E t \in Threads : Fetch(t)
    \/ Alive /\ \E t \in Threads : SetAndReturn(t)
    \/ Alive /\ Sweep
    \/ Alive /\ \E e \in evicting : OnEviction(e)
    \/ Alive /\ EvictionRemoveAll
    \/ Alive /\ EvictionUnlock
    \/ Alive /\ Tick
    \/ TransportReturns
    \/ ServerCleanupStore
    \/ Alive /\ CleanupDeleteAll
    \/ Alive /\ CleanupStop
    \/ ServerDeleteAll
    \/ ServerStop
    \/ Exit

SpecServer == InitServer /\ [][NextServer]_vars

\* the steps the running process takes by itself
ServerInternal ==
    /\ Alive
    /\ \/ Internal
       \/ ServerCleanupStore
       \/ ServerDeleteAll
       \/ ServerStop

FairServer == SpecServer /\ WF_vars(ServerInternal)

(***************************************************************************)
(* handleToolCall and runGoDoc                                             *)
(***************************************************************************)
\* the symbols a request may name
Targets == {<<>>, SymReader}

\* the path "."
Dot == <<".">>

\* the module the go.mod of the caller's project declares, and the module
\* of a scratch project (go mod init godoc-temp, src/project.go:101)
UserModule == <<"m">>
ScratchModule == <<"g", "o", "d", "o", "c", "-", "t", "e", "m", "p">>

\* src/unnamed/part_003:229-235: the module name parsed from the go.mod of
\* dir; every go.mod of the model has a module line
ModuleName(dir) == IF Within(dir, TmpDir) /\ dir # TmpDir THEN ScratchModule ELSE UserModule

\* strings.TrimPrefix(s, p)
TrimPrefix(s, p) == IF HasPrefix(s, p) THEN SubSeq(s, Len(p) + 1, Len(s)) ELSE s

\* what validatePath returns: the resolved path, or an error
Resolved(path) == [path |-> path, err |-> ""]
Invalid(msg) == [path |-> <<>>, err |-> msg]

\* a validation that accepts every path as it is
validateNothing(d, path, dir) == Resolved(path)

\* src/unnamed/part_003:214-276
validatePath(d, path, dir) ==
    IF HasPrefix(path, Dot)
    THEN IF dir = <<>>
         THEN Invalid("working_dir is required for relative paths (including '.')")
         ELSE IF Entry(Join(dir, GoMod), FALSE) \notin d
         THEN Invalid("failed to read go.mod in working directory")
         ELSE IF ModuleName(dir) = <<>>
         THEN Invalid("no module declaration found in go.mod")
         ELSE IF path = Dot
         THEN Resolved(ModuleName(dir))
         ELSE Resolved(Join(ModuleName(dir), TrimPrefix(path, <<".", "/">>)))
    ELSE IF HasPrefix(path, <<"/">>) \/ IsAbs(path)
    THEN IF dir # <<>> /\ path # dir
         THEN Invalid("absolute path must match working directory when provided")
         ELSE IF Entry(Join(path, GoMod), FALSE) \notin d
         THEN Invalid("failed to read go.mod")
         ELSE IF ModuleName(path) = <<>>
         THEN Invalid("no module declaration found in go.mod")
         ELSE Resolved(ModuleName(path))
    ELSE Resolved(path)

\* src/unnamed/part_003:216, 251: the path is neither relative nor absolute
IsImportPath(path) ==
    ~HasPrefix(path, <<".">>) /\ ~HasPrefix(path, <<"/">>) /\ ~IsAbs(path)

\* src/unnamed/part_003:320-327: cmdArgs, without cmd_flags
CmdArgs(r) == IF r.target = <<>> THEN <<r.path>> ELSE <<r.path, r.target>>

\* the handler of thread t has called GetOrCreateProject
Invoked(t) == calls > req[t].ticket

\* a handler that takes every path as present
PathNeverMissing(path) == FALSE

\* src/unnamed/part_003:283-284: path == "", for a path parameter that is
\* missing, not a string, or empty
PathMissing(path) == path = <<>>

\* a handler that asks the project store whatever the request supplies
NeedsProjectAlways(dir) == TRUE

\* src/unnamed/part_003:311: if workingDir == "", the project store is asked
\* for a directory
NeedsProject(dir) == dir = <<>>

\* handleToolCall returns r before it has resolved anything
Reject(r) ==
    /\ resp' = r
    /\ UNCHANGED <<hpc, req, workingDir>>

\* src/unnamed/part_003:279-317: a request with a path, a target and a
\* working_dir ("" when it supplies none) arrives; a missing path, a
\* working_dir that is no directory and a path validatePath refuses end it
HandleToolCall(t, path, target, dir) ==
    /\ t \in active
    /\ hpc[t] = "idle"
    /\ pc[t] = "idle"
    /\ calls < MaxCalls
    /\ path \in refs
    /\ \E v \in {validatePath(disk, path, dir)} :
         IF PathMissing(path)
         THEN Reject(Response("toolerror", "invalid or missing path parameter", path, dir))
         ELSE IF dir # <<>> /\ ~IsDirAt(disk, dir)
         THEN Reject(Response("toolerror", "invalid working directory", path, dir))
         ELSE IF v.err # ""
         THEN Reject(Response("error", v.err, path, dir))
         ELSE /\ hpc' = [hpc EXCEPT ![t] = IF NeedsProject(dir) THEN "project" ELSE "rundoc"]
              /\ req' = [req EXCEPT ![t] = [path |-> v.path, target |-> target,
                                            dir |-> dir, ticket |-> calls]]
              /\ workingDir' = [workingDir EXCEPT ![t] = dir]
              /\ resp' = NoResponse
    /\ UNCHANGED <<fnVars, lastErr, disk, pmVars, cbVars, cfgVars, thVars, calls, shVars, srvVars,
                   docLast, histVars>>

\* src/unnamed/part_003:311-313: s.projectManager.GetOrCreateProject(path)
HandleGetProject(t) ==
    /\ hpc[t] = "project"
    /\ ~Invoked(t)
    /\ Call(t, req[t].path)

\* src/unnamed/part_003:313-317: GetOrCreateProject has returned: its
\* directory is the working directory, its error ends the request
HandleProject(t) ==
    /\ hpc[t] = "project"
    /\ Invoked(t)
    /\ pc[t] = "idle"
    /\ IF last.err = ""
       THEN /\ workingDir' = [workingDir EXCEPT ![t] = last.dir]
            /\ hpc' = [hpc EXCEPT ![t] = "rundoc"]
            /\ req' = req
            /\ resp' = resp
       ELSE /\ workingDir' = workingDir
            /\ hpc' = [hpc EXCEPT ![t] = "idle"]
            /\ req' = [req EXCEPT ![t] = NoRequest]
            /\ resp' = Response("toolerror", "failed to create temporary project",
                                req[t].path, <<>>)
    /\ UNCHANGED <<fnVars, lastErr, disk, pmVars, cbVars, cfgVars, thVars, calls, shVars, srvVars,
                   docLast, histVars>>

\* src/unnamed/part_003:330-367: runGoDoc has returned text or the error
\* err; the request carries no page and no page_size, so that a text is
\* returned as its first page; the handler's locals are gone
HandlerReturns(t, text, err) ==
    /\ hpc' = [hpc EXCEPT ![t] = "idle"]
    /\ req' = [req EXCEPT ![t] = NoRequest]
    /\ workingDir' = [workingDir EXCEPT ![t] = <<>>]
    /\ resp' = IF err = ""
               THEN Response("result", text, req[t].path, workingDir[t])
               ELSE Response("toolerror", err, req[t].path, workingDir[t])

\* src/unnamed/part_003:153-165: runGoDoc looks the key up in the cache and
\* returns the cached text on a hit
RunGoDoc(t) ==
    /\ hpc[t] = "rundoc"
    /\ \E g \in {DocGet(docCache, cacheKey(workingDir[t], CmdArgs(req[t])))} :
         /\ docCache' = g.cache
         /\ IF g.hit
            THEN /\ docLast' = [dir |-> workingDir[t], args |-> CmdArgs(req[t]),
                                started |-> FALSE, text |-> g.value, err |-> ""]
                 /\ HandlerReturns(t, g.value, "")
            ELSE /\ hpc' = [hpc EXCEPT ![t] = "exec"]
                 /\ UNCHANGED <<req, workingDir, docLast, resp>>
    /\ UNCHANGED <<fnVars, lastErr, disk, pmVars, cbVars, cfgVars, thVars, calls, shVars, mpc,
                   docSweeper, histVars>>

\* an error mapping that looks for no phrase
DocErrorPlain(out) == "go doc error"

\* an error mapping that looks for "no such symbol" first
DocErrorSymbolFirst(out) ==
    IF Says(out, NoSuchSymbol) THEN "Symbol not found"
    ELSE IF Says(out, NoSuchPackage) \/ Says(out, NotInStd) THEN "Package not found"
    ELSE IF Says(out, BuildConstraints) THEN "No Go files found for current platform"
    ELSE "go doc error"

\* src/unnamed/part_003:175-196: the error runGoDoc returns for the
\* combined output of a command that failed
DocError(out) ==
    IF Says(out, NoSuchPackage) \/ Says(out, NotInStd) THEN "Package not found"
    ELSE IF Says(out, NoSuchSymbol) THEN "Symbol not found"
    ELSE IF Says(out, BuildConstraints) THEN "No Go files found for current platform"
    ELSE "go doc error"

\* src/unnamed/part_003:176-196: what fmt.Errorf puts into the error text
\* after the category: the combined output (%s errStr), the error of the
\* command (%v err, its exit status), or both
DocErrorArgs(exit, out) ==
    IF DocError(out) = "Package not found" THEN [err |-> "", output |-> <<out>>]
    ELSE IF DocError(out) = "go doc error" THEN [err |-> exit, output |-> <<out>>]
    ELSE [err |-> exit, output |-> <<>>]

\* the command ends with status 0 or 1 and prints none of the phrases
PlainOutcomes == {Outcome("0", <<>>), Outcome("1", <<>>)}

\* src/unnamed/part_003:167-210: go doc runs in workingDir and ends as o
\* says; it cannot start when the directory is gone; its output is cached
\* when it exits with status 0, and CombinedOutput does not return while it
\* has not exited
ExecGoDoc(t, o) ==
    /\ hpc[t] = "exec"
    /\ \E started \in {workingDir[t] = <<>> \/ IsDirAt(disk, workingDir[t])} :
         IF started /\ o.exit = "never"
         THEN /\ hpc' = [hpc EXCEPT ![t] = "blocked"]
              /\ UNCHANGED <<docCache, docLast, req, workingDir, resp>>
         ELSE IF started /\ o.exit = "0"
         THEN /\ docCache' = DocSet(docCache, cacheKey(workingDir[t], CmdArgs(req[t])),
                                    GoDocOutput(workingDir[t], CmdArgs(req[t]), o.out))
              /\ docLast' = [dir |-> workingDir[t], args |-> CmdArgs(req[t]),
                             started |-> TRUE,
                             text |-> GoDocOutput(workingDir[t], CmdArgs(req[t]), o.out),
                             err |-> ""]
              /\ HandlerReturns(t, GoDocOutput(workingDir[t], CmdArgs(req[t]), o.out), "")
         ELSE /\ docCache' = docCache
              /\ docLast' = [dir |-> workingDir[t], args |-> CmdArgs(req[t]),
                             started |-> TRUE, text |-> <<>>,
                             err |-> DocError(IF started THEN o.out ELSE <<>>)]
              /\ HandlerReturns(t, <<>>, DocError(IF started THEN o.out ELSE <<>>))
    /\ UNCHANGED <<fnVars, lastErr, disk, pmVars, cbVars, cfgVars, thVars, calls, shVars, mpc,
                   docSweeper, histVars>>

\* step minutes pass for the items of the documentation cache
DocTick(step) ==
    /\ \E k \in DOMAIN docCache : ~IsExpired(docCache[k])
    /\ docCache' = [k \in DOMAIN docCache |->
                       IF IsExpired(docCache[k]) THEN docCache[k]
                       ELSE [docCache[k] EXCEPT !.expiresIn = @ - step,
                                                 !.age = IF @ + step > MaxAge THEN MaxAge
                                                        ELSE @ + step]]
    /\ UNCHANGED <<fnVars, lastErr, disk, pmVars, cbVars, cfgVars, thVars, calls, shVars, mpc,
                   docSweeper, reqVars, histVars>>

\* the Start loop of the documentation cache deletes the expired items
DocSweep ==
    /\ docSweeper = "running"
    /\ \E k \in DOMAIN docCache : IsExpired(docCache[k])
    /\ docCache' = [k \in { j \in DOMAIN docCache : ~IsExpired(docCache[j]) } |->
                       docCache[k]]
    /\ UNCHANGED <<fnVars, lastErr, disk, pmVars, cbVars, cfgVars, thVars, calls, shVars, mpc,
                   docSweeper, reqVars, histVars>>

\* one client whose requests are handled one after the other; none of them
\* supplies a working_dir
InitRequests ==
    /\ InitStore
    /\ InitDocCache
    /\ InitHandler
    /\ InitNoFn
    /\ mpc = "serving"
    /\ active = {1}
    /\ refs = {RefIo, RefRemote, RefRel, Dot, <<>>}

NextHandler ==
    \/ \E t \in Threads, path \in Refs \cup {Dot, <<>>}, target \in Targets :
         HandleToolCall(t, path, target, <<>>)
    \/ \E t \in Threads : HandleGetProject(t)
    \/ \E t \in Threads : Classify(t)
    \/ \E t \in Threads : MkdirTemp(t)
    \/ \E t \in Threads : Register(t)
    \/ \E t \in Threads : ModInit(t)
    \/ \E t \in Threads : Fetch(t)
    \/ \E t \in Threads : SetAndReturn(t)
    \/ \E t \in Threads : HandleProject(t)
    \/ \E t \in Threads : RunGoDoc(t)
    \/ \E t \in Threads, o \in PlainOutcomes : ExecGoDoc(t, o)
    \/ Sweep
    \/ \E e \in evicting : OnEviction(e)
    \/ EvictionRemoveAll
    \/ EvictionUnlock
    \/ Tick
    \/ DocTick(DocTickStep)
    \/ DocSweep

SpecHandler == InitRequests /\ [][NextHandler]_vars

(***************************************************************************)
(* requests that supply a working_dir: runGoDoc without the project store  *)
(***************************************************************************)
\* a path that holds the separator of the cache key
RefIoBar == RefIo \o Bar \o SymReader

\* a directory of the caller that is no module root
Home == <<"/", "u">>

\* a request: its path, target and working_dir
Request(path, target, dir) == [path |-> path, target |-> target, dir |-> dir]

\* the requests of the client: a symbol of a package looked up in two
\* directories, and a path that contains the separator
DocRequests ==
    { Request(RefIo, SymReader, Cwd),
      Request(RefIo, SymReader, Home),
      Request(RefIoBar, <<>>, Cwd) }

\* the combined outputs of a documentation command that fails, by the
\* phrases in them
DocOutputs ==
    {<<>>, <<NoSuchPackage>>, <<NotInStd>>, <<NoSuchSymbol>>, <<BuildConstraints>>,
     <<NoSuchSymbol, NoSuchPackage>>, <<BuildConstraints, NotInStd>>,
     <<BuildConstraints, NoSuchSymbol>>}

\* the documentation texts of a command that succeeds, by the phrases in
\* them
DocTexts == {<<>>, <<NoSuchPackage>>}

\* the command exits with status 0, 1 or 2, or does not exit
DocOutcomes ==
    { Outcome("0", out) : out \in DocTexts }
        \cup { Outcome(e, out) : e \in {"1", "2", "never"}, out \in DocOutputs }

\* the steps of time of the documentation cache
DocSteps == {DocHalfStep, DocTickStep}

InitDoc ==
    /\ InitStore
    /\ InitDocCache
    /\ InitHandler
    /\ InitNoFn
    /\ mpc = "serving"
    /\ active = {1}
    /\ refs = {RefIo, RefIoBar}

NextDoc ==
    \/ \E t \in Threads, r \in DocRequests : HandleToolCall(t, r.path, r.target, r.dir)
    \/ \E t \in Threads : RunGoDoc(t)
    \/ \E t \in Threads, o \in DocOutcomes : ExecGoDoc(t, o)
    \/ \E step \in DocSteps : DocTick(step)
    \/ DocSweep

SpecDoc == InitDoc /\ [][NextDoc]_vars

\* the goroutine of a request runs on while it can
DocInternal ==
    \/ \E t \in Threads : RunGoDoc(t)
    \/ \E t \in Threads, o \in DocOutcomes : ExecGoDoc(t, o)

FairDoc == SpecDoc /\ WF_vars(DocInternal)

(***************************************************************************)
(* the classification and the walker, applied to references on their own   *)
(***************************************************************************)
\* a switch that looks at the prefix before the dot
classifyPrefixFirst(ref) ==
    IF HasPrefix(ref, <<".">>) THEN "Relative"
    ELSE IF HasPrefix(ref, <<"/">>) \/ IsAbs(ref) THEN "Absolute"
    ELSE IF isStdLib(ref) THEN "StdLib"
    ELSE "ImportPath"

\* the case of the switch of createTempProject that a reference takes,
\* src/project.go:70-88
classify(ref) ==
    IF isStdLib(ref) THEN "StdLib"
    ELSE IF HasPrefix(ref, <<".">>) THEN "Relative"
    ELSE IF HasPrefix(ref, <<"/">>) \/ IsAbs(ref) THEN "Absolute"
    ELSE "ImportPath"

Alphabet == {".", "/", "u"}

\* the strings over the alphabet of length 1 to n
StringsUpTo(n) == UNION { [1..k -> Alphabet] : k \in 1..n }

\* the references the functions are applied to
FnRefs == StringsUpTo(MaxLen) \cup Refs \cup {<<"/", "u", "/", "m", "i", "s", "c">>}

\* the directories that may hold a go.mod
ModDirs == {<<"/">>, <<"/", "u">>, Cwd, Join(Cwd, <<"p", "k", "g">>)}

\* the caller's tree with a go.mod in each directory of mods
TreeWith(mods) ==
    { e \in UserTree : e.isDir \/ Ext(e.name) = DotGo }
        \cup { Entry(Join(m, GoMod), FALSE) : m \in mods }

InitFn ==
    /\ InitPool
    /\ InitDocCache
    /\ InitHandler
    /\ mpc = "off"
    /\ active = {}
    /\ refs = {}
    /\ fnRef \in FnRefs
    /\ fnOut = NoOut
    /\ paging = NoPaging
    /\ \E mods \in SUBSET ModDirs : disk = TreeWith(mods)

\* src/project.go:70-88, 107-112: the case the reference takes, and whether
\* go get is run for it
ApplyClassify ==
    /\ fnOut.class = "none"
    /\ \E wdOK \in BOOLEAN :
         fnOut' = [fnOut EXCEPT !.class = classify(fnRef),
                                !.fetch = ~NoFetch(Resolve(disk, fnRef, wdOK).pkgPath)]
    /\ UNCHANGED <<disk, pmVars, cbVars, cfgVars, thVars, calls, shVars, srvVars,
                   reqVars, histVars, lastErr, fnRef, paging>>

\* src/project.go:134-153: walkUpDir of an absolute path
ApplyWalk ==
    /\ ~fnOut.walked
    /\ IsAbs(fnRef)
    /\ fnOut' = [fnOut EXCEPT !.walked = TRUE, !.root = walkUpDir(disk, fnRef)]
    /\ UNCHANGED <<disk, pmVars, cbVars, cfgVars, thVars, calls, shVars, srvVars,
                   reqVars, histVars, lastErr, fnRef, paging>>

\* src/unnamed/part_003:289-297: validatePath of the reference, for a
\* request without working_dir or with one that is a directory
ApplyValidate ==
    /\ ~fnOut.validated
    /\ \E dir \in {<<>>} \cup { m \in ModDirs : IsDirAt(disk, m) } :
         fnOut' = [fnOut EXCEPT !.validated = TRUE, !.dir = dir,
                                !.resolved = validatePath(disk, fnRef, dir)]
    /\ UNCHANGED <<disk, pmVars, cbVars, cfgVars, thVars, calls, shVars, srvVars,
                   reqVars, histVars, lastErr, fnRef, paging>>

NextFn == ApplyClassify \/ ApplyWalk \/ ApplyValidate

SpecFn == InitFn /\ [][NextFn]_vars

(***************************************************************************)
(* the pagination of handleToolCall, applied to a text on its own          *)
(***************************************************************************)
\* the page numbers a request may carry run from -1 to MaxPage
MaxPage == 3

\* src/unnamed/part_003:123-136: the defaults and the limits the input
\* schema declares
DefaultPage == 1
DefaultPageSize == 1000
MinPageSize == 100
MaxPageSize == 5000

\* the page_size values a request may carry
PageSizes ==
    {-1, 0, 1, MinPageSize - 1, MinPageSize, DefaultPageSize, MaxPageSize, MaxPageSize + 1}

\* the numbers of lines of a documentation text; strings.Split gives at
\* least one line
LineCounts == {1, MinPageSize + 50, DefaultPageSize + 1, MaxPageSize + 1000}

\* the absolute value
Abs(n) == IF n < 0 THEN 0 - n ELSE n

\* a / b on Go integers, b # 0: the quotient is truncated toward zero
GoDiv(a, b) ==
    IF (a < 0) = (b < 0) THEN Abs(a) \div Abs(b) ELSE 0 - (Abs(a) \div Abs(b))

\* a min that gives its first argument
MinLeft(a, b) == a

\* the built-in min
Min(a, b) == IF a < b THEN a ELSE b

\* what the pagination gives: a page, an error result, or a run-time panic
Page(page, totalPages, start, end) ==
    [kind |-> "page", page |-> page, totalPages |-> totalPages,
     start |-> start, end |-> end]
PageError(page, totalPages) ==
    [kind |-> "exceeds", page |-> page, totalPages |-> totalPages,
     start |-> 0, end |-> 0]
Panic(page) ==
    [kind |-> "panic", page |-> page, totalPages |-> 0, start |-> 0, end |-> 0]

\* src/unnamed/part_003:340-355: the pages of a text of totalLines lines;
\* a division by zero and a slice lines[start:end] that is out of range
\* panic
Paginate(totalLines, page, pageSize) ==
    IF pageSize = 0 THEN Panic(page)
    ELSE LET totalPages == GoDiv(totalLines + pageSize - 1, pageSize)
             start == (page - 1) * pageSize
             end == Min(start + pageSize, totalLines) IN
         IF page > totalPages THEN PageError(page, totalPages)
         ELSE IF start < 0 \/ end < start THEN Panic(page)
         ELSE Page(page, totalPages, start, end)

\* a text and the page and page_size of a request, which default to 1 and
\* to 1000 when the request leaves them out
InitPage ==
    /\ InitStore
    /\ InitDocCache
    /\ InitHandler
    /\ mpc = "off"
    /\ active = {}
    /\ refs = {}
    /\ fnRef = <<>>
    /\ fnOut = NoOut
    /\ \E n \in LineCounts, p \in -1..MaxPage, size \in PageSizes :
         paging = [lines |-> n, page |-> p, pageSize |-> size, out |-> NoPage]

\* src/unnamed/part_003:336-355
ApplyPaginate ==
    /\ paging.out = NoPage
    /\ paging.lines > 0
    /\ paging' = [paging EXCEPT !.out = Paginate(paging.lines, paging.page,
                                                   paging.pageSize)]
    /\ UNCHANGED <<disk, pmVars, cbVars, cfgVars, thVars, calls, shVars, srvVars,
                   reqVars, histVars, lastErr, fnRef, fnOut>>

NextPage == ApplyPaginate

SpecPage == InitPage /\ [][NextPage]_vars

(***************************************************************************)
(* what the claims speak about                                             *)
(***************************************************************************)
\* the scratch directories the store has created so far
Created == { TempName(n) : n \in 1..(nextTemp - 1) }

\* a reference that is a relative or an absolute path
IsLocalRef(ref) == HasPrefix(ref, <<".">>) \/ HasPrefix(ref, <<"/">>)

\* the absolute path a local reference stands for
AbsOf(ref) == IF IsAbs(ref) THEN Clean(ref) ELSE Join(Cwd, ref)

RECURSIVE NearestRoot(_, _)
\* the nearest directory, from dir upward and below "/", that holds go.mod,
\* found with os.Stat(filepath.Join(dir, "go.mod")) as the first revision of
\* the walk does
NearestRoot(d, dir) ==
    IF dir = <<"/">> THEN <<>>
    ELSE IF Exists(d, Join(dir, GoMod)) THEN dir
    ELSE NearestRoot(d, Dir(dir))

\* the module root of an existing directory or .go file ("" if none): what
\* the Module Root Walker is to find
ModuleRootOf(d, abs) ==
    IF ~Exists(d, abs) THEN <<>>
    ELSE IF IsDirAt(d, abs) THEN NearestRoot(d, abs)
    ELSE IF Ext(abs) = DotGo THEN NearestRoot(d, Dir(abs))
    ELSE <<>>

\* the local references that have a module root
Rooted == { ref \in Refs : IsLocalRef(ref) /\ ModuleRootOf(disk, AbsOf(ref)) # <<>> }

\* the step in which cleanup() returns
CleanupReturns == CleanupStop

\* the call of thread t is the second of two calls for the same reference
\* made one after the other with no eviction and no cleanup in between
IsSecondCall(t) ==
    /\ pc[t] # "idle"
    /\ last.err # "none"
    /\ pkgPath[t] = last.ref
    /\ undisturbed

(***************************************************************************)
(* the claims                                                              *)
(***************************************************************************)
\* C1: when cleanup() returns, no scratch directory the store created is
\* left on disk, whether the calls that created them succeeded or failed.
C1_NoScratchDirAfterCleanup ==
    [][CleanupReturns => \A n \in 1..(nextTemp - 1) : ~Exists(disk', TempName(n))]_vars

\* C2: whatever disappears from the disk in a step lies in a scratch
\* directory the store created itself; nothing of the caller's tree, and so
\* no module root, is ever removed.
C2_OnlyOwnScratchDirsRemoved ==
    [][\A e \in disk \ disk' : \E p \in Created : Within(e.name, p)]_vars

\* C2 witness: the store has removed a scratch directory it created, and
\* the caller's tree is whole.
C2_Witness ==
    /\ \E p \in Created : ~Exists(disk, p)
    /\ UserTree \subseteq disk

\* C3: a call with a relative or absolute reference that has a module root
\* records no pool entry for the reference and creates no scratch directory
\* (the pending-cleanup list grows only with a scratch directory).
C3_ModuleRootLeavesPoolUnchanged ==
    \A ref \in Rooted :
        /\ cache[ref] = NoItem
        /\ \A t \in Threads : pkgPath[t] = ref => trace[t] = <<>>
        /\ last.ref = ref => last.trace = <<>>

\* C4: a call with an absolute reference that names an existing directory or
\* .go file below a module root creates no scratch directory, runs no
\* module-init, and returns that module root.
C4_AbsoluteRefReturnsModuleRoot ==
    /\ \A t \in Threads :
          (IsAbs(pkgPath[t]) /\ ModuleRootOf(disk, Clean(pkgPath[t])) # <<>>) =>
              trace[t] = <<>>
    /\ (IsAbs(last.ref) /\ ModuleRootOf(disk, Clean(last.ref)) # <<>>) =>
          /\ last.trace = <<>>
          /\ last.err = ""
          /\ last.dir = ModuleRootOf(disk, Clean(last.ref))

C6_LaterCallsReturnSameDir ==
    [][\A t \in Threads, ref \in Refs :
          (Call(t, ref) /\ committed[ref] # <<>>) =>
              /\ pc'[t] = "idle"
              /\ CacheGet(cache, ref).value = committed[ref]]_vars

\* C7: once the TTL of a pool entry has run out, its directory is
\* eventually gone from the disk; here for a store that is in service, that
\* is, unless cleanup() is called.
C7_ExpiredDirEventuallyGone ==
    \A n \in 1..MaxTemp :
        (/\ cleanups = 0
         /\ \E k \in Refs : IsExpired(cache[k]) /\ cache[k].value = TempName(n))
            ~> (cleanups > 0 \/ ~Exists(disk, TempName(n)))

\* C8: every pool entry maps its reference to a directory that exists on
\* disk.
C8_PoolEntriesExistOnDisk ==
    \A k \in Refs : cache[k] # NoItem => IsDirAt(disk, cache[k].value)

\* C8 witness: one entry has been evicted and its directory deleted while
\* the pool holds another entry.
C8_Witness ==
    /\ \E p \in Created : ~Exists(disk, p)
    /\ \E k \in Refs : cache[k] # NoItem /\ cache[k].value \in Created

\* C9: the directory of an evicted entry is gone from the disk no later
\* than its mapping is gone from the pool: no eviction is between the two.
C9_DirDeletedNoLaterThanMapping ==
    \A e \in evicting : ~Exists(disk, e.value)

\* C10: no call of cleanup() blocks: cleanup() is never waiting in
\* Cache.Stop for a sweeper that has already stopped.
C10_CleanupNeverBlocks ==
    ~(cpc = "stop" /\ sweeper = "stopped")

C12_CleanupTerminatesSweepersStopped ==
    /\ (mpc = "cleanup") ~> (mpc = "return")
    /\ [](mpc = "return" => (sweeper = "stopped" /\ docSweeper = "stopped"))

\* C12 witness: the server's cleanup has been started and waits for pm.mu,
\* which an eviction callback that the sweeper started holds.
C12_Witness ==
    /\ mpc = "cleanup"
    /\ cleanups = 0
    /\ cb # NoCallback
    /\ mu = "evict"

\* C13: when the process exits after it has served, cleanup has run and no
\* scratch directory the store created is left on disk.
C13_ExitAfterCleanupNoScratchDir ==
    [][Exit => (cleanups > 0 /\ \A p \in Created : ~Exists(disk, p))]_vars

\* the two steps of a scratch project without package-fetch, in dir
InitOnly(dir) == <<Op("mkdir", dir, <<>>), Op("init", dir, <<>>)>>

\* C14: a call for a standard library reference that misses the pool makes
\* one scratch directory, runs go mod init once in it and never runs go
\* get; the directory it returns is that one, and it is the working
\* directory runGoDoc is called with.
C14_StdLibScratchDirInitOnly ==
    /\ \A t \in Threads :
          (pc[t] # "idle" /\ isStdLib(pkgPath[t]) /\ trace[t] # <<>>) =>
              \E n \in 1..2 : trace[t] = SubSeq(InitOnly(tempDir[t]), 1, n)
    /\ (last.err # "none" /\ isStdLib(last.ref) /\ last.trace # <<>>) =>
          IF last.err = ""
          THEN last.dir \in Created /\ last.trace = InitOnly(last.dir)
          ELSE \E p \in Created : \E n \in 0..2 : last.trace = SubSeq(InitOnly(p), 1, n)
    /\ \A t \in Threads :
          (hpc[t] \in {"rundoc", "exec"} /\ isStdLib(req[t].path)) =>
              /\ last.ref = req[t].path /\ last.err = ""
              /\ workingDir[t] = last.dir
              /\ workingDir[t] \in Created

\* C14 witness: go doc io has run in the scratch directory that the call
\* before it made and initialised.
C14_Witness ==
    /\ docLast.started /\ docLast.err = ""
    /\ docLast.args = <<RefIo>>
    /\ last.ref = RefIo /\ last.err = ""
    /\ last.trace = InitOnly(last.dir)
    /\ docLast.dir = last.dir

\* the documentation cache holds a live item under the key of the lookup
\* that thread t is about to make
HasLiveEntry(t) ==
    /\ cacheKey(workingDir[t], CmdArgs(req[t])) \in DOMAIN docCache
    /\ ~IsExpired(docCache[cacheKey(workingDir[t], CmdArgs(req[t]))])

\* C20: when the documentation cache holds a live item for the working
\* directory and arguments of a runGoDoc call, the call returns the text of
\* that item at once and starts no process.
C20_LiveEntryServedWithoutProcess ==
    [][\A t \in Threads :
          (RunGoDoc(t) /\ HasLiveEntry(t)) =>
              /\ hpc'[t] = "idle"
              /\ docLast' = [dir |-> workingDir[t], args |-> CmdArgs(req[t]),
                             started |-> FALSE,
                             text |-> docCache[cacheKey(workingDir[t], CmdArgs(req[t]))].value,
                             err |-> ""]
              /\ disk' = disk]_vars

\* C20 witness: a runGoDoc call has returned the text of an earlier run
\* from the cache, without a process.
C20_Witness ==
    /\ docLast.err = ""
    /\ ~docLast.started
    /\ docLast.text = GoDocOutput(docLast.dir, docLast.args, <<>>)
    /\ docLast.dir \in Created

\* the three steps of a scratch project for the import path ref, in dir
InitAndGet(dir, ref) ==
    <<Op("mkdir", dir, <<>>), Op("init", dir, <<>>), Op("get", dir, ref)>>

\* C15: a call for an import path that misses the pool runs go mod init and
\* then go get, both in the scratch directory it made; go get is started
\* only when go mod init has succeeded (go.mod is there), and its one
\* argument is the reference itself.
C15_ImportPathInitThenGet ==
    /\ \A t \in Threads :
          (pc[t] # "idle" /\ IsImportPath(pkgPath[t]) /\ ~isStdLib(pkgPath[t])) =>
              /\ trace[t] # <<>> =>
                    \E n \in 1..3 : trace[t] = SubSeq(InitAndGet(tempDir[t], pkgPath[t]), 1, n)
              /\ pc[t] = "fetch" =>
                    /\ trace[t] = SubSeq(InitAndGet(tempDir[t], pkgPath[t]), 1, 2)
                    /\ Exists(disk, Join(tempDir[t], GoMod))
    /\ (last.err = "" /\ IsImportPath(last.ref) /\ ~isStdLib(last.ref)
            /\ last.trace # <<>>) =>
          /\ last.dir \in Created
          /\ last.trace = InitAndGet(last.dir, last.ref)

\* C15 witness: a call for x.y/z has returned the scratch directory in
\* which it ran go mod init and then go get x.y/z.
C15_Witness ==
    /\ last.ref = RefRemote
    /\ last.err = ""
    /\ last.trace = InitAndGet(last.dir, RefRemote)
    /\ Exists(disk, Join(last.dir, GoSum))

\* C16: a call in which go mod init or go get fails returns no directory
\* and an error whose text holds the output the subprocess printed; the
\* step leaves the pool as it was; and a call in which go mod init failed
\* has not run go get.
C16_FailedSubprocessReturnsError ==
    [][\A t \in Threads :
          (pc[t] \in {"modinit", "fetch"} /\ pc'[t] = "idle") =>
              /\ last'.err = (IF pc[t] = "modinit" THEN "init" ELSE "get")
              /\ last'.dir = <<>>
              /\ \E i \in 1..Len(lastErr'.text) : lastErr'.text[i] = lastErr'.printed
              /\ lastErr'.printed \in Outputs
              /\ cache' = cache
              /\ pc[t] = "modinit" =>
                    \A i \in 1..Len(last'.trace) : last'.trace[i].op # "get"]_vars

\* C16 witness: go get has failed, the call has returned its error, and
\* the pool has no entry for the reference.
C16_Witness ==
    /\ last.err = "get"
    /\ lastErr.printed \in Outputs
    /\ cache[last.ref] = NoItem

\* the directory the walk for abs starts in
StartDir(d, abs) == IF IsDirAt(d, abs) THEN abs ELSE Dir(abs)

\* abs is a directory or .go file that lies in nested modules: at least two
\* directories from its starting directory upward, below "/", hold a go.mod
Nested(d, abs) ==
    /\ Exists(d, abs)
    /\ IsDirAt(d, abs) \/ Ext(abs) = DotGo
    /\ Cardinality({ m \in ModDirs \ {<<"/">>} :
                        Within(StartDir(d, abs), m) /\ Exists(d, Join(m, GoMod)) }) >= 2

\* C17: for a path in nested modules the walker returns the nearest module
\* root: the first directory, from the starting directory upward, that
\* holds a go.mod.
C17_WalkerReturnsNearestRoot ==
    (fnOut.walked /\ Nested(disk, fnRef)) => fnOut.root = ModuleRootOf(disk, fnRef)

\* C18: a reference that begins with "." takes the Relative case and one
\* that begins with "/" the Absolute case, with or without a dot in it, and
\* go get is run for neither.
C18_PrefixDecidesLocal ==
    fnOut.class # "none" =>
        /\ HasPrefix(fnRef, <<".">>) => fnOut.class = "Relative"
        /\ HasPrefix(fnRef, <<"/">>) => fnOut.class = "Absolute"
        /\ IsLocalRef(fnRef) => ~fnOut.fetch

\* C19: a reference is classified StdLib exactly when no character of it
\* is a dot.
C19_StdLibIffNoDot ==
    fnOut.class # "none" =>
        (fnOut.class = "StdLib" <=> \A i \in 1..Len(fnRef) : fnRef[i] # ".")

\* C19 witness: a reference without a dot, here one that begins with "/",
\* has been classified StdLib.
C19_Witness ==
    /\ fnOut.class = "StdLib"
    /\ HasPrefix(fnRef, <<"/">>)
    /\ Len(fnRef) > 1

\* the runGoDoc call that returned last was served from the cache
ServedFromCache == docLast.err = "" /\ ~docLast.started

\* C21: a text runGoDoc returns from the cache was stored by a run with the
\* same working directory and the same ordered argument list; calls that
\* differ in the working directory or in an argument share no cache item.
C21_CachedTextOfSameDirAndArgs ==
    ServedFromCache =>
        /\ docLast.text.dir = docLast.dir
        /\ docLast.text.args = docLast.args

\* the documentation command of thread t can be started
CanStart(t) == workingDir[t] = <<>> \/ IsDirAt(disk, workingDir[t])

\* C22: whenever the combined output of the documentation command contains
\* "no such package", runGoDoc returns the package-not-found error, whatever
\* the exit status of the command is.
C22_NoSuchPackageIsNotFound ==
    [][\A t \in Threads, o \in DocOutcomes :
          (/\ ExecGoDoc(t, o)
           /\ CanStart(t)
           /\ o.exit # "never"
           /\ Says(o.out, NoSuchPackage)) =>
              docLast'.err = "Package not found"]_vars

\* C22, amended: whenever the documentation command fails and its combined
\* output contains "no such package", runGoDoc returns the package-not-found
\* error, whatever the non-zero exit status is, and caches nothing; the
\* output of a command that exits with status 0 is returned as the text.
C22_FailedNoSuchPackageIsNotFound ==
    [][\A t \in Threads, o \in DocOutcomes :
          (/\ ExecGoDoc(t, o)
           /\ CanStart(t)
           /\ o.exit \notin {"0", "never"}
           /\ Says(o.out, NoSuchPackage)) =>
              /\ docLast'.err = "Package not found"
              /\ resp'.kind = "toolerror"
              /\ resp'.msg = "Package not found"
              /\ docCache' = docCache]_vars

\* C22 witness: a command that printed "no such package" has failed and
\* the request was answered with the package-not-found error.
C22_Witness ==
    /\ docLast.started
    /\ docLast.err = "Package not found"
    /\ resp.kind = "toolerror"
    /\ resp.msg = "Package not found"

\* C23: a documentation command that never exits is killed after a timeout:
\* the request that waits for it returns in the end, with an error and with
\* no item written to the cache.
C23_HungCommandTimesOut ==
    \A t \in Threads : (hpc[t] = "blocked") ~> (hpc[t] = "idle" /\ resp.kind = "toolerror")

\* thread t calls runGoDoc for the directory and arguments of the failed
\* call that returned last
IdenticalToFailed(t) ==
    /\ docLast.started
    /\ docLast.err \notin {"", "none"}
    /\ workingDir[t] = docLast.dir
    /\ CmdArgs(req[t]) = docLast.args

\* C24: a documentation command that fails, in whatever error category,
\* leaves the documentation cache as it was; only a successful run stores
\* an item, and an identical call that follows a failed one runs the
\* command again.
C24_FailureLeavesCacheUnchanged ==
    [][/\ \A t \in Threads, o \in DocOutcomes :
            ExecGoDoc(t, o) =>
                IF docLast'.err = "" /\ hpc'[t] = "idle"
                THEN cacheKey(workingDir[t], CmdArgs(req[t])) \in DOMAIN docCache'
                ELSE docCache' = docCache
       /\ \A t \in Threads :
            (RunGoDoc(t) /\ IdenticalToFailed(t)) => hpc'[t] = "exec"]_vars

\* C24 witness: a command has failed, the cache holds no item for its
\* working directory and arguments, and an identical call runs the command
\* again.
C24_Witness ==
    \E t \in Threads :
        /\ hpc[t] = "exec"
        /\ IdenticalToFailed(t)
        /\ cacheKey(workingDir[t], CmdArgs(req[t])) \notin DOMAIN docCache

\* C25: a cached text is served for at most 5 minutes after the command run
\* that produced it, however often it is requested in between: a call that
\* is served from the cache gets a text that is at most DocTTL minutes old.
C25_ServedAtMostFiveMinutes ==
    [][\A t \in Threads :
          (RunGoDoc(t) /\ hpc'[t] = "idle") =>
              docCache[cacheKey(workingDir[t], CmdArgs(req[t]))].age <= DocTTL]_vars

\* C26: a hit in the scratch directory pool refreshes nothing: the expiry of
\* the entry stays at its creation time plus the TTL, however often the
\* entry is looked up.
C26_PoolHitRefreshesNothing ==
    [][\A t \in Threads, ref \in Refs :
          (Call(t, ref) /\ CacheGet(cache, ref).hit) =>
              cache'[ref].expiresIn = cache[ref].expiresIn]_vars

\* the state of the project store, of both caches, of the disk and of the
\* calls in progress stays as it is
NothingStarted ==
    UNCHANGED <<disk, pmVars, cbVars, thVars, calls, docCache, docLast, hpc, req,
                workingDir, histVars>>

\* C27: a request whose path is missing or empty is answered with an error
\* result before anything else is done: no path is resolved, the project
\* store is not called, no scratch directory is made, no documentation
\* command is run and both caches stay as they are.
C27_MissingPathRejectedFirst ==
    [][(hpc' # hpc \/ resp' # resp) =>
          \A t \in Threads, target \in Targets :
              HandleToolCall(t, <<>>, target, <<>>) =>
                  /\ resp' = Response("toolerror", "invalid or missing path parameter",
                                      <<>>, <<>>)
                  /\ NothingStarted]_vars

\* C27 witness: a request without a path was answered with the error result
\* while the pool and the documentation cache held entries.
C27_Witness ==
    /\ resp = Response("toolerror", "invalid or missing path parameter", <<>>, <<>>)
    /\ \E k \in DOMAIN cache : cache[k] # NoItem
    /\ docCache # <<>>

\* the paths of the requests that begin with "."
RelativePaths == { p \in Refs \cup {Dot} : HasPrefix(p, Dot) }

\* the error of validatePath for a relative path without working_dir
NeedsWorkingDir == "working_dir is required for relative paths (including '.')"

\* C28: a request whose path begins with "." and that supplies no
\* working_dir is answered with an error before a scratch directory is made
\* and before a documentation command is run.
C28_RelativePathNeedsWorkingDir ==
    [][(hpc' # hpc \/ resp' # resp) =>
          \A t \in Threads, path \in RelativePaths, target \in Targets :
              HandleToolCall(t, path, target, <<>>) =>
                  /\ resp' = Response("error", NeedsWorkingDir, path, <<>>)
                  /\ NothingStarted]_vars

\* C28 witness: the request for "./pkg" without working_dir, made before any
\* scratch directory exists, is answered with that error.
C28_Witness ==
    /\ resp.kind = "error"
    /\ resp.msg = NeedsWorkingDir
    /\ resp.path = RefRel
    /\ resp.dir = <<>>
    /\ Created = {}

\* validatePath has accepted a relative path with a working_dir
RelativeAccepted ==
    /\ fnOut.validated
    /\ HasPrefix(fnRef, Dot)
    /\ fnOut.dir # <<>>
    /\ fnOut.resolved.err = ""

\* C29: every relative path that validatePath accepts with a working_dir
\* whose go.mod declares module M resolves to M or to a path below M, also
\* when the path has ".." segments.
C29_RelativePathStaysInModule ==
    RelativeAccepted => Within(fnOut.resolved.path, ModuleName(fnOut.dir))

\* C30: the handler splits the output only with a page number of at least 1
\* and a page_size within [100, 5000], whatever the request supplies.
C30_PageAndSizeWithinBounds ==
    paging.out.kind = "page" =>
        /\ paging.page >= 1
        /\ paging.pageSize >= MinPageSize
        /\ paging.pageSize <= MaxPageSize

\* thread t is in the subprocess phase of createTempProject: go mod init or
\* go get is about to run or runs
InSubprocess(t) == pc[t] \in {"modinit", "fetch"}

\* C31: no GetOrCreateProject call holds pm.mu while its go mod init or its
\* go get runs: the lock is held by a call only around the append to the
\* pending-cleanup list, so calls for different references can be in their
\* subprocess phase at the same time.
C31_NoLockDuringSubprocess ==
    /\ mu \in {"free", "evict", "cleanup"}
    /\ \A t \in Threads : InSubprocess(t) => mu # "call"

\* C31 witness: two calls for different references are in their subprocess
\* phase at the same time.
C31_Witness ==
    \E t1, t2 \in Threads :
        /\ t1 # t2
        /\ InSubprocess(t1)
        /\ InSubprocess(t2)
        /\ pkgPath[t1] # pkgPath[t2]


\* the elements of the pending-cleanup list
Pending == { tempDirs[i] : i \in 1..Len(tempDirs) }

\* the scratch directories a call has created and not yet appended to the
\* pending-cleanup list (between os.MkdirTemp and pm.mu.Lock())
Unregistered == { tempDir[t] : t \in { u \in Threads : pc[u] = "register" } }

\* C32: every scratch directory the store created and that still exists on
\* disk is in the pending-cleanup list (a directory whose creating call has
\* not reached the append yet is not counted), the duplicate directory of
\* two concurrent calls for the same new reference included.
C32_ExistingScratchDirsPending ==
    \A p \in Created \ Unregistered : Exists(disk, p) => p \in Pending


\* cleanup() has returned, no call is in progress and no eviction callback
\* is waiting or running
Quiet ==
    /\ cpc = "idle"
    /\ cleanups > 0
    /\ \A t \in Threads : pc[t] = "idle"
    /\ evicting = {}
    /\ cb = NoCallback

\* the pool holds an entry and its sweeper has stopped: nothing will evict it
Stranded == sweeper = "stopped" /\ \E k \in DOMAIN cache : cache[k].value # <<>>

\* C33: if cleanup() ran while a call was between creating its scratch
\* directory and putting it into the pool, then once both have finished (and
\* the eviction callbacks with them) no scratch directory is on disk and the
\* pool holds no entry that no sweeper will evict.
C33_RacedCleanupLeavesNothing ==
    (raced /\ Quiet) =>
        /\ \A p \in Created : ~Exists(disk, p)
        /\ ~Stranded


(***************************************************************************)
(* requests while the store shuts down                                     *)
(***************************************************************************)
\* one client asks for remote and standard library packages
InitShutdown ==
    /\ InitStore
    /\ InitDocCache
    /\ InitHandler
    /\ InitNoFn
    /\ mpc = "serving"
    /\ active = {1}
    /\ refs = {RefRemote, RefIo}

\* src/unnamed/part_003:279-368, src/project.go:123-132: the handler's
\* steps, the sweepers, and cleanup() on the shutdown path
NextShutdown ==
    \/ NextHandler
    \/ CleanupLock
    \/ CleanupDeleteAll
    \/ CleanupStop

SpecShutdown == InitShutdown /\ [][NextShutdown]_vars

\* C34: when runGoDoc is about to execute the documentation command of a
\* request, the working directory GetOrCreateProject returned to that
\* request is a directory on disk, whatever TTL eviction and cleanup() did
\* in between.
C34_WorkingDirExistsAtExec ==
    \A t \in Threads : hpc[t] = "exec" => IsDirAt(disk, workingDir[t])


\* the steps tr are the first steps of a scratch project without
\* package-fetch in dir
StartsInitOnly(tr, dir) == \E n \in 0..2 : tr = SubSeq(InitOnly(dir), 1, n)

\* C35: a call for a relative or absolute reference for which the walker
\* found no module root makes a scratch directory, runs go mod init in it
\* and never go get, and returns that directory; only a failing os.MkdirTemp
\* or go mod init makes it return an error.
C35_NoRootScratchDirInitOnly ==
    /\ \A t \in Threads :
          (IsLocalRef(pkgPath[t]) /\ pc[t] \in {"mkdir", "register", "modinit", "fetch"}) =>
              /\ pc[t] # "fetch"
              /\ StartsInitOnly(trace[t], tempDir[t])
    /\ (last.err # "none" /\ IsLocalRef(last.ref) /\ last.trace # <<>>) =>
          IF last.err = ""
          THEN last.dir \in Created /\ last.trace = InitOnly(last.dir)
          ELSE \E p \in Created : StartsInitOnly(last.trace, p)


\* src/project.go:142-145: the directory the loop of walkUpDir starts at
WalkStart(d, absPath) == IF IsDirAt(d, Clean(absPath)) THEN absPath ELSE Dir(absPath)

\* the directories the loop can test on its way up from absPath: absPath,
\* its prefixes, and their cleaned forms
OnTheWay(absPath) ==
    { SubSeq(absPath, 1, k) : k \in 1..Len(absPath) }
        \cup { Clean(SubSeq(absPath, 1, k)) : k \in 1..Len(absPath) }

\* one step of the loop from dir goes to a strictly shorter absolute path
\* that dir lies in: the parent, never a sibling or a child
Ascends(dir) ==
    \E up \in {Dir(dir)} :
        /\ IsAbs(up)
        /\ Len(up) < Len(dir)
        /\ Within(Clean(dir), up)

DocCategories ==
    {"Package not found", "Symbol not found", "No Go files found for current platform",
     "go doc error"}

\* C37: the error of a failed documentation command is decided by the first
\* rule that matches its output: "no such package" or "is not in std" is
\* package not found; else "no such symbol" is symbol not found; else "build
\* constraints exclude all Go files" is the platform error; else the generic
\* error, whose text carries the output. Every output gets one category.
C37_FirstMatchingRuleDecides ==
    [][\A t \in Threads, o \in DocOutcomes :
          (/\ hpc[t] = "exec" /\ hpc'[t] = "idle"
           /\ ExecGoDoc(t, o)
           /\ CanStart(t)
           /\ o.exit \notin {"0", "never"}) =>
              /\ docLast'.err \in DocCategories
              /\ resp'.kind = "toolerror" /\ resp'.msg = docLast'.err
              /\ (Says(o.out, NoSuchPackage) \/ Says(o.out, NotInStd)) <=>
                     docLast'.err = "Package not found"
              /\ (/\ ~Says(o.out, NoSuchPackage) /\ ~Says(o.out, NotInStd)
                  /\ Says(o.out, NoSuchSymbol)) <=> docLast'.err = "Symbol not found"
              /\ (/\ ~Says(o.out, NoSuchPackage) /\ ~Says(o.out, NotInStd)
                  /\ ~Says(o.out, NoSuchSymbol)
                  /\ Says(o.out, BuildConstraints)) <=>
                     docLast'.err = "No Go files found for current platform"
              /\ docLast'.err = "go doc error" =>
                     DocErrorArgs(o.exit, o.out).output = <<o.out>>]_vars

\* C37 witness: a command has failed and its error was decided by a rule
\* other than the first: the request was answered with symbol not found.
C37_Witness ==
    /\ docLast.started
    /\ docLast.err = "Symbol not found"
    /\ resp.kind = "toolerror"
    /\ resp.msg = "Symbol not found"


(***************************************************************************)
(* requests with and without a working_dir                                 *)
(***************************************************************************)
\* the working directories a request may supply: none, the caller's module
\* root, and a directory that does not exist
WorkingDirs == {<<>>, Cwd, <<"/", "n">>}

InitWorkingDir ==
    /\ InitStore
    /\ InitDocCache
    /\ InitHandler
    /\ InitNoFn
    /\ mpc = "serving"
    /\ active = {1}
    /\ refs = {RefRemote}

\* src/unnamed/part_003:279-368: the handler's steps for requests that
\* supply a working_dir or none, with the project store behind it
NextWorkingDir ==
    \/ \E t \in Threads, dir \in WorkingDirs : HandleToolCall(t, RefRemote, <<>>, dir)
    \/ \E t \in Threads : HandleGetProject(t)
    \/ \E t \in Threads : Classify(t)
    \/ \E t \in Threads : MkdirTemp(t)
    \/ \E t \in Threads : Register(t)
    \/ \E t \in Threads : ModInit(t)
    \/ \E t \in Threads : Fetch(t)
    \/ \E t \in Threads : SetAndReturn(t)
    \/ \E t \in Threads : HandleProject(t)
    \/ \E t \in Threads : RunGoDoc(t)
    \/ \E t \in Threads, o \in PlainOutcomes : ExecGoDoc(t, o)

SpecWorkingDir == InitWorkingDir /\ [][NextWorkingDir]_vars

\* C38: every step of a request that supplied a valid working_dir leaves
\* the project store alone: GetOrCreateProject is not called, the pool, the
\* pending-cleanup list and the disk do not change, and the documentation
\* command, when it is started, runs in that working_dir.
C38_WorkingDirBypassesStore ==
    [][\A t \in Threads :
          (hpc'[t] # hpc[t] /\ (req[t].dir # <<>> \/ req'[t].dir # <<>>)) =>
              \E dir \in {IF req[t].dir # <<>> THEN req[t].dir ELSE req'[t].dir} :
                  /\ IsDirAt(disk, dir)
                  /\ hpc'[t] # "project"
                  /\ hpc[t] # "idle" => workingDir[t] = dir
                  /\ hpc'[t] # "idle" => workingDir'[t] = dir
                  /\ pmVars' = pmVars /\ disk' = disk
                  /\ calls' = calls /\ pc' = pc
                  /\ hpc[t] = "exec" =>
                         (docLast'.started /\ docLast'.dir = dir /\ resp'.dir = dir)]_vars

\* C38 witness: a request with the working_dir /u/proj has been answered
\* with the text of the command that ran there, and the store has created
\* no scratch directory and holds no pool entry.
C38_Witness ==
    /\ docLast.started /\ docLast.err = ""
    /\ docLast.dir = Cwd
    /\ resp.kind = "result" /\ resp.dir = Cwd
    /\ nextTemp = 1
    /\ \A k \in DOMAIN cache : cache[k] = NoItem


\* C39: whatever page and page_size a request carries, the pagination gives
\* an error result or a slice lines[start:end] with 0 <= start <= end <=
\* totalLines; it never divides by zero and never slices out of range.
C39_PaginationNeverPanics ==
    paging.out # NoPage =>
        \/ paging.out.kind = "exceeds"
        \/ /\ paging.out.kind = "page"
           /\ 0 <= paging.out.start
           /\ paging.out.start <= paging.out.end
           /\ paging.out.end <= paging.lines


\* ceil(n / size) for n >= 1 and size >= 1: the least number of pages of
\* that size that hold n lines
Ceil(n, size) == CHOOSE k \in 1..n : k * size >= n /\ (k - 1) * size < n

\* the lines of page q of a text of n lines: the 0-based half-open range
\* from (q-1)*size to the smaller of q*size and n
LinesOf(n, q, size) ==
    [start |-> (q - 1) * size, end |-> IF q * size < n THEN q * size ELSE n]

\* C40: for page_size >= 1 and a text of L lines, totalPages is
\* ceil(L / page_size); page p of 1..totalPages holds the lines
\* (p-1)*page_size+1 to min(p*page_size, L); the pages 1..totalPages follow
\* each other without gap or overlap from the first line to the last; a
\* page above totalPages gives the error result.
C40_PagesPartitionDocument ==
    (paging.out # NoPage /\ paging.pageSize >= 1 /\ paging.page >= 1) =>
        \E total \in {Ceil(paging.lines, paging.pageSize)} :
            /\ paging.out.totalPages = total
            /\ IF paging.page > total
               THEN paging.out.kind = "exceeds"
               ELSE /\ paging.out.kind = "page"
                    /\ paging.out.start = LinesOf(paging.lines, paging.page, paging.pageSize).start
                    /\ paging.out.end = LinesOf(paging.lines, paging.page, paging.pageSize).end
                    /\ paging.out.start < paging.out.end
            /\ \A q \in 1..total :
                 \E pg \in {Paginate(paging.lines, q, paging.pageSize)} :
                    /\ pg.kind = "page"
                    /\ pg.start = IF q = 1 THEN 0
                                  ELSE Paginate(paging.lines, q - 1, paging.pageSize).end
                    /\ pg.start < pg.end
                    /\ q = total => pg.end = paging.lines

\* C40 witness: the last page of a text whose length is no multiple of the
\* page size has been cut: page 2 of 2, shorter than page_size, ending at
\* the last line.
C40_Witness ==
    /\ paging.out.kind = "page"
    /\ paging.pageSize >= 1
    /\ paging.page = 2 /\ paging.out.totalPages = 2
    /\ paging.out.end = paging.lines
    /\ paging.out.end - paging.out.start < paging.pageSize

====
